---- MODULE Spec2Model ----
(***************************************************************************)
(* A positional inverted index with TF-IDF ranking (Information-Retrieval- *)
(* PII): index construction and finalization (models.py), the index cache  *)
(* and the champions lists (optimizer.py), the loader (loader.py) and the  *)
(* query path (search.py, utils.py, score_weight.py).                      *)
(*                                                                         *)
(* Conventions of the model                                                *)
(*  - A term or a document id is a Python str; the model writes the n-th   *)
(*    string of the lexicographic order as the natural number n, so that   *)
(*    Python's  <  on str is  <  on the numbers.                           *)
(*  - A float is a fixed-point number with SCALE units per 1.0.            *)
(*  - None is the empty tuple and any other value v is <<v>> (Some(v)).    *)
(*  - A Python dict is the sequence of its (key, value) pairs in insertion *)
(*    order; a Python list of tuples is a sequence of pairs.               *)
(*  - A call that raises returns a record with exc # "none".               *)
(***************************************************************************)
EXTENDS Integers, Sequences, FiniteSets, TLC

\* ------------------------------------------------------------------ bounds

\* Longest query, in tokens.
MaxQueryLen == 2
\* Largest k of a search and largest r of a champions list.
MaxK == 2
MaxR == 2
\* Number of create() calls the caller makes.
MaxCreates == 1 + 1
\* Number of add_occurrence calls made on a free-standing builder.
MaxOccurrences == 3

\* ------------------------------------------------------------ Python values

None == << >>
Some(v) == << v >>
IsNone(o) == o = << >>
Unwrap(o) == o[1]

Min(a, b) == IF a < b THEN a ELSE b
Max(a, b) == IF a > b THEN a ELSE b

\* seq[:n] of Python, n any integer.
SliceTo(seq, n) ==
    LET m == IF n >= 0 THEN Min(n, Len(seq)) ELSE Max(Len(seq) + n, 0)
    IN SubSeq(seq, 1, m)

\* seq[n:] of Python, n >= 0.
SliceFrom(seq, n) == SubSeq(seq, Min(n, Len(seq)) + 1, Len(seq))

\* dict.get(key): the index of the pair with that key, 0 for a miss.
DictIndex(d, key) ==
    IF \E i \in 1..Len(d) : d[i][1] = key
    THEN CHOOSE i \in 1..Len(d) : d[i][1] = key /\ \A j \in 1..(i-1) : d[j][1] # key
    ELSE 0

\* key in dict
DictHas(d, key) == DictIndex(d, key) # 0

\* dict[key] = value: replaces in place, a new key goes last.
DictPut(d, key, value) ==
    LET i == DictIndex(d, key)
    IN IF i = 0 THEN Append(d, <<key, value>>)
       ELSE [d EXCEPT ![i] = <<key, value>>]

\* dict.get(key, default)
DictGetOr(d, key, default) ==
    LET i == DictIndex(d, key) IN IF i = 0 THEN default ELSE d[i][2]

\* sorted(items, key=lambda x: x[0]): stable insertion by ascending first component.
RECURSIVE InsertByKey(_, _)
InsertByKey(sorted, x) ==
    IF sorted = << >> THEN << x >>
    ELSE IF sorted[Len(sorted)][1] <= x[1] THEN Append(sorted, x)
    ELSE Append(InsertByKey(SubSeq(sorted, 1, Len(sorted) - 1), x), sorted[Len(sorted)])

RECURSIVE SortedByKey(_)
SortedByKey(items) ==
    IF items = << >> THEN << >>
    ELSE InsertByKey(SortedByKey(SubSeq(items, 1, Len(items) - 1)), items[Len(items)])

\* sorted(items, key=..., reverse=True) on <<key, item>> pairs: descending by key,
\* items of equal key in their original order (the sort is stable).
RECURSIVE InsertByKeyDescending(_, _)
InsertByKeyDescending(sorted, x) ==
    IF sorted = << >> THEN << x >>
    ELSE IF sorted[Len(sorted)][1] >= x[1] THEN Append(sorted, x)
    ELSE Append(InsertByKeyDescending(SubSeq(sorted, 1, Len(sorted) - 1), x),
                sorted[Len(sorted)])

RECURSIVE SortedByKeyDescending(_)
SortedByKeyDescending(items) ==
    IF items = << >> THEN << >>
    ELSE InsertByKeyDescending(SortedByKeyDescending(SubSeq(items, 1, Len(items) - 1)),
                               items[Len(items)])

\* The concatenation of a sequence of sequences: a nested for loop, flattened.
RECURSIVE Flatten(_)
Flatten(seqs) == IF seqs = << >> THEN << >> ELSE seqs[1] \o Flatten(Tail(seqs))

\* for (key, x) in contributions: d[key] = d[key] + x if key in d else x
RECURSIVE DictAddAll(_, _)
DictAddAll(d, contributions) ==
    IF contributions = << >> THEN d
    ELSE LET key == contributions[1][1]
             x == contributions[1][2]
             i == DictIndex(d, key)
         IN DictAddAll(DictPut(d, key, IF i = 0 THEN x ELSE d[i][2] + x),
                       Tail(contributions))

\* d[key] of a key that is in the dict.
DictGet(d, key) == d[DictIndex(d, key)][2]

\* ------------------------------------------------------------- fixed point

SCALE == 10 * 10

FMul(a, b) == (a * b) \div SCALE
FDiv(a, b) == (a * SCALE) \div b

\* math.log2 of a whole number, in fixed point.
Log2Table ==
    << 0, 100, 158, 200, 232, 258, 281, 300, 317, 332, 346, 358, 370, 381, 391, 400 >>
Log2(n) == Log2Table[n]

\* math.sqrt of a fixed-point number: the largest r with r*r <= x*SCALE.
RECURSIVE SqrtBetween(_, _, _)
SqrtBetween(n, lo, hi) ==
    IF lo >= hi THEN lo
    ELSE LET mid == (lo + hi + 1) \div 2
         IN IF mid * mid <= n THEN SqrtBetween(n, mid, hi)
            ELSE SqrtBetween(n, lo, mid - 1)
FSqrt(x) == SqrtBetween(x * SCALE, 0, Min(x * SCALE, 40000))

\* ---------------------------------------------------------- score_weight.py

PHRASE_QUERY_WEIGHT == 2
TITLE_TOKEN_WEIGHT == 2 * SCALE
TAG_TOKEN_WEIGHT == (3 * SCALE) \div 2
DATE_WEIGHT == (4 * SCALE) \div 10
INDEX_ELIMINATION == None

calculate_tf(linear_tf) ==
    IF linear_tf = 0 THEN 0 ELSE SCALE + Log2(linear_tf)

\* log2(number_of_docs / number_of_docs_contain_token): the quotient 1.0 gives 0.0.
calculate_idf(number_of_docs_contain_token, number_of_docs) ==
    IF number_of_docs_contain_token = 0 THEN 0
    ELSE Log2(number_of_docs) - Log2(number_of_docs_contain_token)

\* ------------------------------------------------------------------ utils.py

\* The while loop of binary_search_tuple, on 0-based low and high.
RECURSIVE binary_search_loop(_, _, _, _)
binary_search_loop(a, x, low, high) ==
    IF low < high
    THEN LET mid == (low + high) \div 2
         IN IF a[mid + 1][1] < x
            THEN binary_search_loop(a, x, mid + 1, high)
            ELSE binary_search_loop(a, x, low, mid)
    ELSE low

\* a[low] of an index past the end raises IndexError.
binary_search_tuple(a, x) ==
    LET low == binary_search_loop(a, x, 0, Len(a) - 1)
    IN IF low >= Len(a) THEN [exc |-> "IndexError", val |-> None]
       ELSE IF a[low + 1][1] = x THEN [exc |-> "none", val |-> Some(a[low + 1][2])]
       ELSE [exc |-> "KeyError", val |-> None]

\* ----------------------------------------------------------------- models.py

\* DocumentTokenData(): tf=-1, linear_tf=0, no position, _weight=1.
NewDocumentTokenData ==
    [tf |-> -SCALE, linear_tf |-> 0, positions |-> << >>, weight |-> SCALE]

\* __add_position__ that does not count an attribute occurrence (position -1).
DocumentTokenData_add_position_attribute_uncounted(data, position, weight) ==
    [data EXCEPT !.positions = Append(@, position),
                 !.linear_tf = IF position = -1 THEN @ ELSE @ + 1,
                 !.weight = FMul(@, weight)]

DocumentTokenData_add_position(data, position, weight) ==
    [data EXCEPT !.positions = Append(@, position),
                 !.linear_tf = @ + 1,
                 !.weight = FMul(@, weight)]

DocumentTokenData_update_tf(data) ==
    [data EXCEPT !.tf = FMul(calculate_tf(data.linear_tf), data.weight)]

\* Token(): idf=-1, linear_df=0, __list__ an empty dict, list and champions_list None.
NewToken ==
    [idf |-> -SCALE, linear_df |-> 0, dict |-> Some(<< >>),
     list |-> None, champions_list |-> None]

\* A list of (key, object) tuples made from a dict holds the dict's own objects:
\* after the objects of `d` were mutated, each tuple shows its object's new value.
SameObjects(pairs, d) ==
    [i \in 1..Len(pairs) |-> << pairs[i][1], DictGetOr(d, pairs[i][1], pairs[i][2]) >>]

SameObjectsOpt(opt, d) ==
    IF IsNone(opt) THEN None ELSE Some(SameObjects(Unwrap(opt), d))

Token_add_position(token, doc_id, position, weight) ==
    LET d == Unwrap(token.dict)
        i == DictIndex(d, doc_id)
        source == IF i = 0 THEN NewDocumentTokenData ELSE d[i][2]
        d2 == DictPut(d, doc_id, DocumentTokenData_add_position(source, position, weight))
    IN [token EXCEPT !.dict = Some(d2),
                     !.linear_df = IF i = 0 THEN @ + 1 ELSE @,
                     !.list = SameObjectsOpt(@, d2),
                     !.champions_list = SameObjectsOpt(@, d2)]

\* Token.__finalize__ without the sort: the postings stay in insertion order.
Token_finalize_unsorted(token, number_of_documents) ==
    LET d == Unwrap(token.dict)
        d2 == [i \in 1..Len(d) |-> << d[i][1], DocumentTokenData_update_tf(d[i][2]) >>]
    IN [token EXCEPT !.idf = calculate_idf(token.linear_df, number_of_documents),
                     !.dict = Some(d2),
                     !.list = Some(d2),
                     !.champions_list = SameObjectsOpt(@, d2)]

Token_finalize(token, number_of_documents) ==
    LET d == Unwrap(token.dict)
        d2 == [i \in 1..Len(d) |-> << d[i][1], DocumentTokenData_update_tf(d[i][2]) >>]
    IN [token EXCEPT !.idf = calculate_idf(token.linear_df, number_of_documents),
                     !.dict = Some(d2),
                     !.list = Some(SortedByKey(d2)),
                     !.champions_list = SameObjectsOpt(@, d2)]

\* A search scope that is the positional list even when a champions list exists.
Token_get_search_scope_list_positional(token) == Unwrap(token.list)

Token_get_search_scope_list(token) ==
    IF ~IsNone(token.champions_list) THEN Unwrap(token.champions_list)
    ELSE Unwrap(token.list)

Token_getitem(token, doc_id) ==
    binary_search_tuple(Token_get_search_scope_list(token), doc_id)

\* try: return self[doc_id].linear_tf / except KeyError: return 0
Token_get_term_frequency(token, doc_id) ==
    LET got == Token_getitem(token, doc_id)
    IN IF got.exc = "none" THEN [exc |-> "none", val |-> Some(Unwrap(got.val).linear_tf)]
       ELSE IF got.exc = "KeyError" THEN [exc |-> "none", val |-> Some(0)]
       ELSE got

\* PositionalInvertedIndexOnMemory(): __tokens__ an empty dict, tokens None.
NewPII == [dict |-> Some(<< >>), tokens |-> None]

\* PositionalInvertedIndexOnMemory(tokens): __tokens__ None.
PIIOfTokens(tokens) == [dict |-> None, tokens |-> Some(tokens)]

PII_add_token(index, token_str, doc_id, position, weight) ==
    LET d == Unwrap(index.dict)
        i == DictIndex(d, token_str)
        source == IF i = 0 THEN NewToken ELSE d[i][2]
        d2 == DictPut(d, token_str, Token_add_position(source, doc_id, position, weight))
    IN [index EXCEPT !.dict = Some(d2), !.tokens = SameObjectsOpt(@, d2)]

PII_finalize(index, number_of_documents) ==
    LET d == Unwrap(index.dict)
        d2 == [i \in 1..Len(d) |-> << d[i][1], Token_finalize(d[i][2], number_of_documents) >>]
    IN [index EXCEPT !.dict = Some(d2), !.tokens = Some(SortedByKey(d2))]

PII_getitem(index, token) == binary_search_tuple(Unwrap(index.tokens), token)

\* datetime.min and datetime.max, as timestamps far from every document's.
DATETIME_MIN == 0 - 1000
DATETIME_MAX == 0 + 1000

\* parse_date: the date string is modelled as Some(timestamp) when strptime parses
\* it and as None when strptime raises ValueError.
parse_date(date, default) == IF IsNone(date) THEN default ELSE Unwrap(date)

\* Document.get_weighted_tokens: title tokens, then the tokens of each tag.
Document_get_weighted_tokens(doc) ==
    LET title == [i \in 1..Len(doc.title) |-> << doc.title[i], TITLE_TOKEN_WEIGHT >>]
        tag(t) == [i \in 1..Len(t) |-> << t[i], TAG_TOKEN_WEIGHT >>]
    IN IF IsNone(doc.tags) THEN title
       ELSE title \o Flatten([j \in 1..Len(Unwrap(doc.tags)) |-> tag(Unwrap(doc.tags)[j])])

\* Document.get_tokens: the tokenizer's output for the content.
Document_get_tokens(doc) == doc.content

\* IRData.__init__
IRData_init(index, documents) ==
    LET RECURSIVE max_date(_)
        max_date(n) ==
            IF n = 0 THEN DATETIME_MIN
            ELSE LET before == max_date(n - 1)
                 IN Max(parse_date(documents[n].date, before), before)
        RECURSIVE min_date(_)
        min_date(n) ==
            IF n = 0 THEN DATETIME_MAX
            ELSE LET before == min_date(n - 1)
                 IN Min(parse_date(documents[n].date, before), before)
        RECURSIVE doc_dict(_)
        doc_dict(n) ==
            IF n = 0 THEN << >>
            ELSE DictPut(doc_dict(n - 1), documents[n].id,
                         [id |-> documents[n].id, title |-> documents[n].title,
                          content |-> << >>, date |-> documents[n].date, tags |-> None])
        tokens == Unwrap(index.tokens)
        squares(token) ==
            LET l == Unwrap(token.list)
            IN [j \in 1..Len(l) |->
                   LET tf_idf == FMul(l[j][2].tf, token.idf)
                   IN << l[j][1], FMul(tf_idf, tf_idf) >>]
        sums == DictAddAll(<< >>, Flatten([i \in 1..Len(tokens) |-> squares(tokens[i][2])]))
    IN [pii |-> index,
        docs |-> doc_dict(Len(documents)),
        max_doc_date |-> max_date(Len(documents)),
        min_doc_date |-> min_date(Len(documents)),
        doc_lengths |-> [i \in 1..Len(sums) |-> << sums[i][1], Max(SCALE, FSqrt(sums[i][2])) >>]]

\* --------------------------------------------------------------- optimizer.py

\* write_cache that dumps linear_tf under "tf".
write_cache_tf_from_linear_tf(index) ==
    LET tokens == Unwrap(index.tokens)
        positional_list(token) ==
            LET l == Unwrap(token.list)
            IN [j \in 1..Len(l) |->
                   [doc_id |-> l[j][1], tf |-> l[j][2].linear_tf * SCALE,
                    lf |-> l[j][2].linear_tf, list |-> l[j][2].positions]]
    IN [i \in 1..Len(tokens) |->
           [term |-> tokens[i][1], idf |-> tokens[i][2].idf,
            df |-> tokens[i][2].linear_df, list |-> positional_list(tokens[i][2])]]

\* The JSON value write_cache dumps: one object per term of pii.tokens, in order.
write_cache(index) ==
    LET tokens == Unwrap(index.tokens)
        positional_list(token) ==
            LET l == Unwrap(token.list)
            IN [j \in 1..Len(l) |->
                   [doc_id |-> l[j][1], tf |-> l[j][2].tf,
                    lf |-> l[j][2].linear_tf, list |-> l[j][2].positions]]
    IN [i \in 1..Len(tokens) |->
           [term |-> tokens[i][1], idf |-> tokens[i][2].idf,
            df |-> tokens[i][2].linear_df, list |-> positional_list(tokens[i][2])]]

\* read_from_cache that does not hand the positions to DocumentTokenData.
read_from_cache_no_positions(file_content) ==
    IF IsNone(file_content) THEN None
    ELSE LET json_data == Unwrap(file_content)
             doc_data(json_list) ==
                 [tf |-> json_list.tf, linear_tf |-> json_list.lf,
                  positions |-> << >>, weight |-> SCALE]
             positional_list(json_token) ==
                 [j \in 1..Len(json_token.list) |->
                     << json_token.list[j].doc_id, doc_data(json_token.list[j]) >>]
             token(json_token) ==
                 [idf |-> json_token.idf, linear_df |-> json_token.df, dict |-> None,
                  list |-> Some(positional_list(json_token)), champions_list |-> None]
         IN Some(PIIOfTokens(
                [i \in 1..Len(json_data) |-> << json_data[i].term, token(json_data[i]) >>]))

\* read_from_cache of the file's content: None when the file is missing.
\* DocumentTokenData(tf, linear_tf, positions) leaves _weight 1;
\* Token(idf, linear_df, positional_list) leaves __list__ and champions_list None.
read_from_cache(file_content) ==
    IF IsNone(file_content) THEN None
    ELSE LET json_data == Unwrap(file_content)
             doc_data(json_list) ==
                 [tf |-> json_list.tf, linear_tf |-> json_list.lf,
                  positions |-> json_list.list, weight |-> SCALE]
             positional_list(json_token) ==
                 [j \in 1..Len(json_token.list) |->
                     << json_token.list[j].doc_id, doc_data(json_token.list[j]) >>]
             token(json_token) ==
                 [idf |-> json_token.idf, linear_df |-> json_token.df, dict |-> None,
                  list |-> Some(positional_list(json_token)), champions_list |-> None]
         IN Some(PIIOfTokens(
                [i \in 1..Len(json_data) |-> << json_data[i].term, token(json_data[i]) >>]))

\* Two malformed contents of a cache file: a text json.load cannot parse, and a
\* JSON array whose token object has no "list" key.
NOT_JSON == << [not_json |-> TRUE] >>
TOKEN_WITHOUT_LIST == << [term |-> 1, idf |-> 0, df |-> 1] >>

\* What read_from_cache raises: only FileNotFoundError is caught (line 87), so the
\* JSONDecodeError of json.load and the KeyError of json_token["list"] escape.
read_from_cache_raises(file_content) ==
    IF IsNone(file_content) THEN "none"
    ELSE IF Unwrap(file_content) = NOT_JSON THEN "JSONDecodeError"
    ELSE IF \E i \in 1..Len(Unwrap(file_content)) :
                "list" \notin DOMAIN Unwrap(file_content)[i]
    THEN "KeyError"
    ELSE "none"

\* champions_of that ranks the postings by tf alone.
champions_of_by_tf(token, doc_lengths, r) ==
    LET l == Unwrap(token.list)
        decorated == SortedByKeyDescending([j \in 1..Len(l) |-> << l[j][2].tf, l[j] >>])
        tf_sorted == [j \in 1..Len(decorated) |-> decorated[j][2]]
    IN SortedByKey(SliceTo(tf_sorted, r))

\* champions_of without the cut to the r best postings.
champions_of_uncut(token, doc_lengths, r) ==
    LET l == Unwrap(token.list)
        tf_idf_func(td) == FDiv(FMul(token.idf, td[2].tf), DictGet(doc_lengths, td[1]))
        decorated == SortedByKeyDescending([j \in 1..Len(l) |-> << tf_idf_func(l[j]), l[j] >>])
        tf_sorted == [j \in 1..Len(decorated) |-> decorated[j][2]]
    IN SortedByKey(tf_sorted)

\* The champions list of one token: the r best postings by
\* idf * tf / doc_lengths[doc_id], re-sorted by document id.
champions_of(token, doc_lengths, r) ==
    LET l == Unwrap(token.list)
        tf_idf_func(td) == FDiv(FMul(token.idf, td[2].tf), DictGet(doc_lengths, td[1]))
        decorated == SortedByKeyDescending([j \in 1..Len(l) |-> << tf_idf_func(l[j]), l[j] >>])
        tf_sorted == [j \in 1..Len(decorated) |-> decorated[j][2]]
    IN SortedByKey(SliceTo(tf_sorted, r))

\* generate_champions_list(ir, r): r is None or Some(number). The Token objects of
\* pii.tokens are those of pii.__tokens__, which see the new champions_list too.
generate_champions_list(irdata, r) ==
    IF IsNone(r) THEN irdata
    ELSE LET tokens == Unwrap(irdata.pii.tokens)
             tokens2 == [i \in 1..Len(tokens) |->
                            << tokens[i][1],
                               [tokens[i][2] EXCEPT !.champions_list =
                                   Some(champions_of(tokens[i][2], irdata.doc_lengths, Unwrap(r)))] >>]
         IN [irdata EXCEPT !.pii = [dict |-> SameObjectsOpt(irdata.pii.dict, tokens2),
                                    tokens |-> Some(tokens2)]]

\* ------------------------------------------------------------------ loader.py

\* The calls of __add_token__ that create_pii makes for one document.
occurrences_of(doc) ==
    LET weighted == Document_get_weighted_tokens(doc)
        tokens == Document_get_tokens(doc)
    IN [i \in 1..Len(weighted) |->
           [term |-> weighted[i][1], doc_id |-> doc.id, position |-> -1,
            weight |-> weighted[i][2]]]
       \o [i \in 1..Len(tokens) |->
           [term |-> tokens[i], doc_id |-> doc.id, position |-> i - 1, weight |-> SCALE]]

RECURSIVE add_tokens(_, _)
add_tokens(index, occurrences) ==
    IF occurrences = << >> THEN index
    ELSE add_tokens(PII_add_token(index, occurrences[1].term, occurrences[1].doc_id,
                                  occurrences[1].position, occurrences[1].weight),
                    Tail(occurrences))

create_pii(documents) ==
    PII_finalize(
        add_tokens(NewPII, Flatten([i \in 1..Len(documents) |-> occurrences_of(documents[i])])),
        Len(documents))

\* The query is modelled by the tokens the tokenizer makes of it; the one document
\* has the id "0" (written 0), an empty title and no tags.
create_query_pii(query_tokens) ==
    create_pii(<< [id |-> 0, title |-> << >>, content |-> query_tokens,
                   date |-> None, tags |-> None] >>)

\* ------------------------------------------------- models.py: IRData lookups

\* try: return self.pii[token_str].linear_df / except KeyError: return 0
IRData_get_document_frequency(irdata, token_str) ==
    LET got == PII_getitem(irdata.pii, token_str)
    IN IF got.exc = "none" THEN [exc |-> "none", val |-> Some(Unwrap(got.val).linear_df)]
       ELSE IF got.exc = "KeyError" THEN [exc |-> "none", val |-> Some(0)]
       ELSE got

\* try: return self.pii[token_str].get_term_frequency(doc_id) / except KeyError: return 0
IRData_get_term_frequency(irdata, token_str, doc_id) ==
    LET got == PII_getitem(irdata.pii, token_str)
    IN IF got.exc = "none" THEN Token_get_term_frequency(Unwrap(got.val), doc_id)
       ELSE IF got.exc = "KeyError" THEN [exc |-> "none", val |-> Some(0)]
       ELSE got

\* ------------------------------------------------------------------ search.py

\* score_weight.date_score, timestamps in seconds
date_score(date, max_date, min_date) ==
    LET date_obj == parse_date(date, min_date)
        total_delta == Max(SCALE, (max_date - min_date) * SCALE)
        time_delta == (date_obj - min_date) * SCALE
        ratio == FDiv(time_delta, total_delta)
    IN FMul(IF ratio < 0 THEN 0 - ratio ELSE ratio, DATE_WEIGHT)

\* The postings the inner loop of cosine_score visits: all of them, or, with an
\* elimination threshold, those up to the first whose wtd is below it (break).
visited_postings(token_data) ==
    LET scope == Token_get_search_scope_list(token_data)
        below == { j \in 1..Len(scope) :
                     /\ ~IsNone(INDEX_ELIMINATION)
                     /\ FMul(scope[j][2].tf, token_data.idf) < Unwrap(INDEX_ELIMINATION) }
    IN IF below = { } THEN scope
       ELSE SubSeq(scope, 1, CHOOSE j \in below : \A m \in below : j <= m)

\* The loop of cosine_score from the i-th query token on.
RECURSIVE cosine_loop(_, _, _, _)
cosine_loop(index, query_tokens, i, doc_scores) ==
    IF i > Len(query_tokens) THEN [exc |-> "none", val |-> Some(doc_scores)]
    ELSE LET wtq == Unwrap(query_tokens[i][2].list)[1][2].tf
             got == PII_getitem(index, query_tokens[i][1])
         IN IF got.exc = "KeyError" THEN cosine_loop(index, query_tokens, i + 1, doc_scores)
            ELSE IF got.exc # "none" THEN [exc |-> got.exc, val |-> None]
            ELSE LET token_data == Unwrap(got.val)
                     postings == visited_postings(token_data)
                     contributions ==
                         [j \in 1..Len(postings) |->
                             << postings[j][1],
                                FMul(FMul(postings[j][2].tf, token_data.idf), wtq) >>]
                 IN cosine_loop(index, query_tokens, i + 1,
                                DictAddAll(doc_scores, contributions))

\* cosine_score that scores the first query token only.
cosine_score_first_token(index, query_pii) ==
    cosine_loop(index, SliceTo(Unwrap(query_pii.tokens), 1), 1, << >>)

cosine_score(index, query_pii) ==
    cosine_loop(index, Unwrap(query_pii.tokens), 1, << >>)

\* pii[token][doc_id]
posting_of(index, token, doc_id) ==
    LET got == PII_getitem(index, token)
    IN IF got.exc # "none" THEN got ELSE Token_getitem(Unwrap(got.val), doc_id)

\* The while loop of phrase_query: the first query token (but the last) with a
\* posting for the document.
RECURSIVE phrase_start(_, _, _, _)
phrase_start(index, query_tokens, doc_id, token_pos) ==
    IF token_pos + 1 < Len(query_tokens)
    THEN LET got == posting_of(index, query_tokens[token_pos + 1][1], doc_id)
         IN IF got.exc = "none"
            THEN [exc |-> "none", token_pos |-> token_pos,
                  positions |-> Some(Unwrap(got.val).positions)]
            ELSE IF got.exc = "KeyError"
            THEN phrase_start(index, query_tokens, doc_id, token_pos + 1)
            ELSE [exc |-> got.exc, token_pos |-> token_pos, positions |-> None]
    ELSE [exc |-> "none", token_pos |-> token_pos, positions |-> None]

\* The innermost loop of phrase_query: the run from pos through the remaining tokens.
RECURSIVE phrase_run(_, _, _, _, _)
phrase_run(index, remaining, doc_id, pos, match_length) ==
    IF remaining = << >> THEN [exc |-> "none", val |-> match_length]
    ELSE LET got == posting_of(index, remaining[1][1], doc_id)
         IN IF got.exc = "KeyError" THEN [exc |-> "none", val |-> match_length]
            ELSE IF got.exc # "none" THEN [exc |-> got.exc, val |-> match_length]
            ELSE LET sp == Unwrap(got.val).positions
                 IN IF \E n \in 1..Len(sp) : sp[n] = pos + 1
                    THEN phrase_run(index, Tail(remaining), doc_id, pos + 1, match_length + 1)
                    ELSE [exc |-> "none", val |-> match_length]

\* The loop over the start positions, from the n-th on.
RECURSIVE phrase_starts(_, _, _, _, _, _)
phrase_starts(index, remaining, doc_id, positions, n, max_consecutive) ==
    IF n > Len(positions) THEN [exc |-> "none", val |-> max_consecutive]
    ELSE IF positions[n] = -1
    THEN phrase_starts(index, remaining, doc_id, positions, n + 1, max_consecutive)
    ELSE LET run == phrase_run(index, remaining, doc_id, positions[n], 1)
         IN IF run.exc # "none" THEN run
            ELSE phrase_starts(index, remaining, doc_id, positions, n + 1,
                               Max(max_consecutive, run.val))

\* One pass of the outer loop of phrase_query: max_consecutive of the document,
\* 0 when the loop goes on to the next document at once.
phrase_of_document(index, query_tokens, doc_id) ==
    LET start == phrase_start(index, query_tokens, doc_id, 0)
    IN IF start.exc # "none" THEN [exc |-> start.exc, val |-> 0]
       ELSE IF IsNone(start.positions) \/ start.token_pos + 1 >= Len(query_tokens)
       THEN [exc |-> "none", val |-> 0]
       ELSE phrase_starts(index, SliceFrom(query_tokens, start.token_pos + 1), doc_id,
                          Unwrap(start.positions), 1, 0)

RECURSIVE phrase_loop(_, _, _, _, _)
phrase_loop(index, query_tokens, doc_ids, i, doc_scores) ==
    IF i > Len(doc_ids) THEN [exc |-> "none", val |-> Some(doc_scores)]
    ELSE LET one == phrase_of_document(index, query_tokens, doc_ids[i])
         IN IF one.exc # "none" THEN [exc |-> one.exc, val |-> None]
            ELSE phrase_loop(index, query_tokens, doc_ids, i + 1,
                     IF one.val > 1
                     THEN DictPut(doc_scores, doc_ids[i],
                                  SCALE + PHRASE_QUERY_WEIGHT
                                          * ((one.val * SCALE) \div Len(query_tokens)))
                     ELSE doc_scores)

phrase_query(index, query_pii, doc_ids) ==
    phrase_loop(index, Unwrap(query_pii.tokens), doc_ids, 1, << >>)

\* heapq.heappush(heap, item) on <<score, doc>> items: append, then sift the new
\* item up while it is < its parent (__lt__ compares the scores).
RECURSIVE siftdown(_, _, _)
siftdown(heap, newitem, pos) ==
    IF pos > 0
    THEN LET parentpos == (pos - 1) \div 2
             parent == heap[parentpos + 1]
         IN IF newitem[1] < parent[1]
            THEN siftdown([heap EXCEPT ![pos + 1] = parent], newitem, parentpos)
            ELSE [heap EXCEPT ![pos + 1] = newitem]
    ELSE [heap EXCEPT ![pos + 1] = newitem]

heappush(heap, item) == siftdown(Append(heap, item), item, Len(heap))

\* nlargest that takes the first k items of the heap as they lie.
nlargest_heap_order(k, heap) ==
    IF k <= 0 THEN << >> ELSE SliceTo(heap, k)

\* heapq.nlargest(k, heap, key=score): sorted(heap, key=score, reverse=True)[:k],
\* and the empty list for k <= 0.
nlargest(k, heap) ==
    IF k <= 0 THEN << >> ELSE SliceTo(SortedByKeyDescending(heap), k)

\* The scoring loop of search from the i-th entry of doc_scores on.
RECURSIVE search_loop(_, _, _, _, _, _)
search_loop(irdata, doc_scores, phrase_scores, with_date, i, doc_heap) ==
    IF i > Len(doc_scores) THEN [exc |-> "none", val |-> Some(doc_heap)]
    ELSE LET doc_id == doc_scores[i][1]
         IN IF ~DictHas(irdata.docs, doc_id) \/ ~DictHas(irdata.doc_lengths, doc_id)
            THEN [exc |-> "KeyError", val |-> None]
            ELSE LET doc == DictGet(irdata.docs, doc_id)
                     cosine == FDiv(doc_scores[i][2], DictGet(irdata.doc_lengths, doc_id))
                     phrased == IF IsNone(phrase_scores) THEN cosine
                                ELSE FMul(cosine, DictGetOr(Unwrap(phrase_scores), doc_id, SCALE))
                     normalized_score ==
                         IF with_date
                         THEN phrased + date_score(doc.date, irdata.max_doc_date,
                                                   irdata.min_doc_date)
                         ELSE phrased
                 IN search_loop(irdata, doc_scores, phrase_scores, with_date, i + 1,
                                heappush(doc_heap, << normalized_score, doc >>))

\* search raising exc, with its locals doc_scores and phrase_scores as they were.
search_raised(exc, doc_scores, phrase_scores) ==
    [exc |-> exc, val |-> None, doc_scores |-> doc_scores, phrase_scores |-> phrase_scores]

\* The loop of search, then heapq.nlargest and the list of (doc, score).
search_top(irdata, k, with_date, doc_scores, phrase_scores) ==
    LET heap == search_loop(irdata, Unwrap(doc_scores), phrase_scores, with_date, 1, << >>)
    IN IF heap.exc # "none" THEN search_raised(heap.exc, doc_scores, phrase_scores)
       ELSE LET top == nlargest(k, Unwrap(heap.val))
            IN [exc |-> "none",
                val |-> Some([i \in 1..Len(top) |-> << top[i][2], top[i][1] >>]),
                doc_scores |-> doc_scores,
                phrase_scores |-> phrase_scores]

\* cosine_score's document ids, in the order of its mapping.
scored_ids(doc_scores) == [i \in 1..Len(doc_scores) |-> doc_scores[i][1]]

\* search(ir, query, k, date_score, phrase_query_score): what it returns (val, the
\* list of (doc, score)) or raises (exc), with its locals doc_scores and phrase_scores.
search(irdata, query_tokens, k, with_date, with_phrase) ==
    LET query_pii == create_query_pii(query_tokens)
        scored == cosine_score(irdata.pii, query_pii)
    IN IF scored.exc # "none" THEN search_raised(scored.exc, None, None)
       ELSE IF ~with_phrase THEN search_top(irdata, k, with_date, scored.val, None)
       ELSE LET phrased == phrase_query(irdata.pii, query_pii, scored_ids(Unwrap(scored.val)))
            IN IF phrased.exc # "none" THEN search_raised(phrased.exc, scored.val, None)
               ELSE search_top(irdata, k, with_date, scored.val, phrased.val)

\* ------------------------------------------------------------------- state

VARIABLES
    source,      \* the document source file: the documents, in file order
    cache_file,  \* the content of <file>.cache, None while it does not exist
    pc,          \* where the running create() call stands
    args,        \* the arguments of the running create() call
    docs,        \* create(): the loaded documents
    pii,         \* the index under construction (create_pii, or a free builder)
    cache_pii,   \* what read_from_cache returned
    ir,          \* create(): the IRData under construction
    returned,    \* the IRData objects create() returned to the caller, oldest first
    query,       \* the arguments of the last search() call
    result       \* what the last search() call returned or raised

vars == << source, cache_file, pc, args, docs, pii, cache_pii, ir, returned, query, result >>

\* ------------------------------------------- a free-standing index builder

BuilderTerms == {1, 2}
BuilderDocIds == {1, 2}
\* An attribute occurrence has the sentinel position -1 and a weight above 1,
\* a positional occurrence has its position and the default weight 1.
OccurrenceKinds ==
    { [position |-> -1, weight |-> TITLE_TOKEN_WEIGHT],
      [position |-> 0, weight |-> SCALE] }

RECURSIVE SumSeq(_)
SumSeq(ns) == IF ns = << >> THEN 0 ELSE ns[1] + SumSeq(Tail(ns))

\* The number of add_occurrence calls the builder has seen.
Occurrences(index) ==
    LET d == Unwrap(index.dict)
        perToken(token) ==
            LET l == Unwrap(token.dict)
            IN SumSeq([j \in 1..Len(l) |-> l[j][2].linear_tf])
    IN SumSeq([i \in 1..Len(d) |-> perToken(d[i][2])])

InitBuilder ==
    /\ source = << >>
    /\ cache_file = None
    /\ pc = "builder"
    /\ args = None
    /\ docs = << >>
    /\ pii = NewPII
    /\ cache_pii = None
    /\ ir = None
    /\ returned = << >>
    /\ query = None
    /\ result = None

\* pii.__add_token__(term, doc_id, position, weight)
AddOccurrence(term, doc_id, kind) ==
    /\ Occurrences(pii) < MaxOccurrences
    /\ pii' = PII_add_token(pii, term, doc_id, kind.position, kind.weight)
    /\ UNCHANGED << source, cache_file, pc, args, docs, cache_pii, ir, returned, query, result >>

\* pii.__finalize__(number_of_documents), the collection being BuilderDocIds.
Finalize ==
    /\ pii' = PII_finalize(pii, Cardinality(BuilderDocIds))
    /\ UNCHANGED << source, cache_file, pc, args, docs, cache_pii, ir, returned, query, result >>

\* write_cache(pii, file) of a finalized index
StoreCache ==
    /\ ~IsNone(pii.tokens)
    /\ cache_file' = Some(write_cache(pii))
    /\ UNCHANGED << source, pc, args, docs, pii, cache_pii, ir, returned, query, result >>

\* cache_pii = read_from_cache(file)
LoadCache ==
    /\ cache_pii' = read_from_cache(cache_file)
    /\ UNCHANGED << source, cache_file, pc, args, docs, pii, ir, returned, query, result >>

NextBuilder ==
    \/ \E term \in BuilderTerms, doc_id \in BuilderDocIds, kind \in OccurrenceKinds :
          AddOccurrence(term, doc_id, kind)
    \/ Finalize
    \/ StoreCache
    \/ LoadCache

SpecBuilder == InitBuilder /\ [][NextBuilder]_vars

\* ------------------------------------------------------------ create() steps

\* The document bodies a source file is made of (terms 1 and 2, say "a" and "b"):
\* "a b", "b a", a document with term 1 in its title only and a tag, "a a", and a
\* document without any token. A date is Some(timestamp), or None when unparsable.
DocBodies ==
    << [title |-> << >>, tags |-> None, content |-> << 1, 2 >>, date |-> Some(1)],
       [title |-> << >>, tags |-> None, content |-> << 2, 1 >>, date |-> Some(2)],
       [title |-> << 1 >>, tags |-> Some(<< << 2 >> >>), content |-> << 2 >>, date |-> None],
       [title |-> << >>, tags |-> None, content |-> << 1, 1 >>, date |-> Some(3)],
       [title |-> << >>, tags |-> None, content |-> << >>, date |-> Some(1)] >>

\* A source file: documents with distinct ids (a JSON object has no duplicate key),
\* in ascending or descending order of their ids.
SourceOf(bodies, descending) ==
    [i \in 1..Len(bodies) |->
        [id |-> IF descending THEN Len(bodies) + 1 - i ELSE i,
         title |-> DocBodies[bodies[i]].title,
         tags |-> DocBodies[bodies[i]].tags,
         content |-> DocBodies[bodies[i]].content,
         date |-> DocBodies[bodies[i]].date]]

\* Every selection of bodies, each at most once, in the order of DocBodies.
BodySelections ==
    { b \in UNION { [1..n -> 1..Len(DocBodies)] : n \in 0..Len(DocBodies) } :
        \A i \in 1..(Len(b) - 1) : b[i] < b[i + 1] }

AscendingSources == { SourceOf(b, FALSE) : b \in BodySelections }
Sources ==
    AscendingSources \cup { SourceOf(b, TRUE) : b \in { c \in BodySelections : Len(c) >= 2 } }

\* champions_list_r: None, or a number.
RChoices == { None } \cup { Some(n) : n \in (0 - 1)..MaxR }

\* load_documents(file): one Document per key of the JSON object, in file order.
load_documents(file_content) == file_content

InitCreate ==
    /\ source \in Sources
    /\ cache_file = None
    /\ pc = "idle"
    /\ args = None
    /\ docs = << >>
    /\ pii = NewPII
    /\ cache_pii = None
    /\ ir = None
    /\ returned = << >>
    /\ query = None
    /\ result = None

\* create(file, cache, champions_list_r) is called: docs = load_documents(file)
CallCreate(cache, r) ==
    /\ pc = "idle"
    /\ Len(returned) < MaxCreates
    /\ args' = Some([cache |-> cache, r |-> r])
    /\ docs' = load_documents(source)
    /\ pc' = IF cache THEN "read_cache" ELSE "create_pii"
    /\ UNCHANGED << source, cache_file, pii, cache_pii, ir, returned, query, result >>

\* if cache: cache_pii = optimizer.read_from_cache(file); an exception of
\* read_from_cache is not caught by create and ends the call ("raised").
ReadCache ==
    /\ pc = "read_cache"
    /\ IF read_from_cache_raises(cache_file) # "none"
       THEN /\ cache_pii' = cache_pii
            /\ pc' = "raised"
       ELSE /\ cache_pii' = read_from_cache(cache_file)
            /\ pc' = IF ~IsNone(cache_pii') THEN "irdata_cached" ELSE "create_pii"
    /\ UNCHANGED << source, cache_file, args, docs, pii, ir, returned, query, result >>

\* A cache hit that returns the IRData without generating champions lists.
MakeIRDataCached_then_return ==
    /\ pc = "irdata_cached"
    /\ ir' = Some(IRData_init(Unwrap(cache_pii), docs))
    /\ pc' = "return"
    /\ UNCHANGED << source, cache_file, args, docs, pii, cache_pii, returned, query, result >>

\* ir = IRData(cache_pii, docs)
MakeIRDataCached ==
    /\ pc = "irdata_cached"
    /\ ir' = Some(IRData_init(Unwrap(cache_pii), docs))
    /\ pc' = "champions"
    /\ UNCHANGED << source, cache_file, args, docs, pii, cache_pii, returned, query, result >>

\* pii = create_pii(docs)
CreatePii ==
    /\ pc = "create_pii"
    /\ pii' = create_pii(docs)
    /\ pc' = IF Unwrap(args).cache THEN "write_cache" ELSE "irdata"
    /\ UNCHANGED << source, cache_file, args, docs, cache_pii, ir, returned, query, result >>

\* if cache: optimizer.write_cache(pii, file)
WriteCache ==
    /\ pc = "write_cache"
    /\ cache_file' = Some(write_cache(pii))
    /\ pc' = "irdata"
    /\ UNCHANGED << source, args, docs, pii, cache_pii, ir, returned, query, result >>

\* ir = IRData(pii, docs)
MakeIRData ==
    /\ pc = "irdata"
    /\ ir' = Some(IRData_init(pii, docs))
    /\ pc' = "champions"
    /\ UNCHANGED << source, cache_file, args, docs, pii, cache_pii, returned, query, result >>

\* optimizer.generate_champions_list(ir, champions_list_r)
GenerateChampions ==
    /\ pc = "champions"
    /\ ir' = Some(generate_champions_list(Unwrap(ir), Unwrap(args).r))
    /\ pc' = "return"
    /\ UNCHANGED << source, cache_file, args, docs, pii, cache_pii, returned, query, result >>

\* return ir: the caller keeps the IRData with the arguments and the source of the
\* call; the locals of create() are gone.
Return ==
    /\ pc = "return"
    /\ returned' = Append(returned, [args |-> Unwrap(args), source |-> source, ir |-> Unwrap(ir)])
    /\ pc' = "idle"
    /\ args' = None
    /\ docs' = << >>
    /\ pii' = NewPII
    /\ cache_pii' = None
    /\ ir' = None
    /\ UNCHANGED << source, cache_file, query, result >>

NextCreate ==
    \/ \E cache \in BOOLEAN, r \in RChoices : CallCreate(cache, r)
    \/ ReadCache
    \/ MakeIRDataCached
    \/ CreatePii
    \/ WriteCache
    \/ MakeIRData
    \/ GenerateChampions
    \/ Return

SpecCreate == InitCreate /\ [][NextCreate]_vars

\* ------------------------------------------------- the program of main.py

\* main.py builds the Collection once, create(file, cache=True, champions_list_r),
\* and then queries it; the queries are the calls the library offers: search with
\* its k, date_score and phrase_query_score arguments, and the frequency lookups.

\* The terms of a query: the two of the documents and one that no document has.
QueryTerms == {1, 2, 3}
Queries == UNION { [1..n -> QueryTerms] : n \in 0..MaxQueryLen }
\* The document ids of a term-frequency lookup: those of the largest source, and one more.
LookupDocIds == 1..(Len(DocBodies) + 1)

NoCall == [op |-> "none", tokens |-> << >>, doc_id |-> 0, k |-> 0,
           date_score |-> FALSE, phrase_query_score |-> FALSE]

Init ==
    /\ source \in AscendingSources
    /\ cache_file = None
    /\ pc = "idle"
    /\ args = None
    /\ docs = << >>
    /\ pii = NewPII
    /\ cache_pii = None
    /\ ir = None
    /\ returned = << >>
    /\ query = None
    /\ result = None

\* ir = loader.create(file, cache=True, champions_list_r=r), once, at start-up
Startup(r) ==
    /\ returned = << >>
    /\ CallCreate(TRUE, r)

\* main.py waits for the next query: create() has returned and no call is under way.
Ready == pc = "idle" /\ returned # << >> /\ IsNone(query)
\* The Collection the queries run against.
Collection == returned[Len(returned)].ir

\* A search whose create_query_pii adds the query's occurrences to the index of
\* the Collection instead of a new index.
search_leaves_query_in_index(irdata, query_tokens) ==
    [irdata EXCEPT !.pii =
        IF IsNone(irdata.pii.dict) THEN PIIOfTokens(<< >>)
        ELSE add_tokens(irdata.pii,
                        [i \in 1..Len(query_tokens) |->
                            [term |-> query_tokens[i], doc_id |-> 0, position |-> i - 1,
                             weight |-> SCALE]])]

\* The IRData object as a search call leaves it. search assigns no attribute of ir,
\* of its index or of its documents: __add_token__ and __finalize__ run on the new
\* index create_query_pii makes (Document, PositionalInvertedIndexOnMemory, Token
\* and DocumentTokenData share no default object), the heap items are new objects.
search_leaves(irdata, query_tokens) == irdata

\* search(ir, query, k, date_score, phrase_query_score)
Search(query_tokens, k, with_date, with_phrase) ==
    /\ Ready
    /\ query' = Some([NoCall EXCEPT !.op = "search", !.tokens = query_tokens, !.k = k,
                                    !.date_score = with_date,
                                    !.phrase_query_score = with_phrase])
    /\ result' = Some(search(Collection, query_tokens, k, with_date, with_phrase))
    /\ returned' = [returned EXCEPT ![Len(returned)].ir = search_leaves(Collection, query_tokens)]
    /\ UNCHANGED << source, cache_file, pc, args, docs, pii, cache_pii, ir >>

\* What a frequency lookup returns or raises, in the shape of search's outcome.
LookupOutcome(got) ==
    [exc |-> got.exc, val |-> got.val, doc_scores |-> None, phrase_scores |-> None]

\* ir.get_document_frequency(term)
GetDocumentFrequency(term) ==
    /\ Ready
    /\ query' = Some([NoCall EXCEPT !.op = "get_document_frequency", !.tokens = << term >>])
    /\ result' = Some(LookupOutcome(IRData_get_document_frequency(Collection, term)))
    /\ UNCHANGED << source, cache_file, pc, args, docs, pii, cache_pii, ir, returned >>

\* ir.get_term_frequency(term, doc_id)
GetTermFrequency(term, doc_id) ==
    /\ Ready
    /\ query' = Some([NoCall EXCEPT !.op = "get_term_frequency", !.tokens = << term >>,
                                    !.doc_id = doc_id])
    /\ result' = Some(LookupOutcome(IRData_get_term_frequency(Collection, term, doc_id)))
    /\ UNCHANGED << source, cache_file, pc, args, docs, pii, cache_pii, ir, returned >>

\* The call is over; main.py goes back to its prompt.
Prompt ==
    /\ ~IsNone(query)
    /\ query' = None
    /\ result' = None
    /\ UNCHANGED << source, cache_file, pc, args, docs, pii, cache_pii, ir, returned >>

Next ==
    \/ \E r \in RChoices : Startup(r)
    \/ ReadCache
    \/ CreatePii
    \/ WriteCache
    \/ MakeIRData
    \/ GenerateChampions
    \/ Return
    \/ \E q \in Queries, k \in 0..MaxK, with_date \in BOOLEAN, with_phrase \in BOOLEAN :
          Search(q, k, with_date, with_phrase)
    \/ \E term \in QueryTerms : GetDocumentFrequency(term)
    \/ \E term \in QueryTerms, doc_id \in LookupDocIds : GetTermFrequency(term, doc_id)
    \/ Prompt

Spec == Init /\ [][Next]_vars

\* ------------------------------- main.py started over a cache file left behind

\* The source files of these runs: at most two documents.
RerunSources == { s \in AscendingSources : Len(s) <= 2 }

\* The cache file the program finds: none, one an earlier run wrote for the source
\* as it was then, or a malformed one.
LeftCaches ==
    { None, Some(NOT_JSON), Some(TOKEN_WITHOUT_LIST) }
    \cup { Some(write_cache(create_pii(s))) : s \in RerunSources }

InitRerun ==
    /\ source \in RerunSources
    /\ cache_file \in LeftCaches
    /\ pc = "idle"
    /\ args = None
    /\ docs = << >>
    /\ pii = NewPII
    /\ cache_pii = None
    /\ ir = None
    /\ returned = << >>
    /\ query = None
    /\ result = None

\* An exception of create is not handled in main.py: the program ends in "raised".
NextRerun ==
    \/ \E r \in RChoices : Startup(r)
    \/ ReadCache
    \/ MakeIRDataCached
    \/ CreatePii
    \/ WriteCache
    \/ MakeIRData
    \/ GenerateChampions
    \/ Return
    \/ \E q \in Queries, with_date \in BOOLEAN, with_phrase \in BOOLEAN :
          Search(q, MaxK, with_date, with_phrase)
    \/ Prompt

SpecRerun == InitRerun /\ [][NextRerun]_vars

\* ------------------------------------- main.py over documents of three terms

\* Document bodies with three terms (say "a", "b", "c"): "b c" under the title
\* "a", "a b c", and "c b" with the tag "a" and an unparsable date.
PhraseBodies ==
    << [title |-> << 1 >>, tags |-> None, content |-> << 2, 3 >>, date |-> Some(1)],
       [title |-> << >>, tags |-> None, content |-> << 1, 2, 3 >>, date |-> Some(2)],
       [title |-> << >>, tags |-> Some(<< << 1 >> >>), content |-> << 3, 2 >>, date |-> None] >>

\* The source files made of these bodies, each at most once, with the ids 1, 2, ...
PhraseSources ==
    { [i \in 1..Len(b) |->
          [id |-> i, title |-> PhraseBodies[b[i]].title, tags |-> PhraseBodies[b[i]].tags,
           content |-> PhraseBodies[b[i]].content, date |-> PhraseBodies[b[i]].date]] :
      b \in { c \in UNION { [1..n -> 1..Len(PhraseBodies)] : n \in 0..Len(PhraseBodies) } :
                \A i \in 1..(Len(c) - 1) : c[i] < c[i + 1] } }

\* The queries of these runs: one token more than MaxQueryLen.
PhraseQueries == [1..(MaxQueryLen + 1) -> QueryTerms]

InitPhrase ==
    /\ source \in PhraseSources
    /\ cache_file = None
    /\ pc = "idle"
    /\ args = None
    /\ docs = << >>
    /\ pii = NewPII
    /\ cache_pii = None
    /\ ir = None
    /\ returned = << >>
    /\ query = None
    /\ result = None

NextPhrase ==
    \/ \E r \in RChoices : Startup(r)
    \/ ReadCache
    \/ CreatePii
    \/ WriteCache
    \/ MakeIRData
    \/ GenerateChampions
    \/ Return
    \/ \E q \in PhraseQueries, with_date \in BOOLEAN, with_phrase \in BOOLEAN :
          Search(q, MaxK, with_date, with_phrase)
    \/ Prompt

SpecPhrase == InitPhrase /\ [][NextPhrase]_vars

\* ------------------------------------------------------------ claims C1, C2

StrictlyAscending(pairs) ==
    \A i \in 1..(Len(pairs) - 1) : pairs[i][1] < pairs[i + 1][1]

\* A frozen index: strictly ascending terms, and strictly ascending document ids
\* in the postings of every Token.
SortedIndex(index) ==
    LET tokens == Unwrap(index.tokens)
    IN /\ StrictlyAscending(tokens)
       /\ \A i \in 1..Len(tokens) : StrictlyAscending(Unwrap(tokens[i][2].list))

\* C1: every index finalize produced, and every index loaded from a cache that
\* store wrote, has strictly ascending terms and, in every Token, strictly
\* ascending document ids (so no term and no document id occurs twice).
C1_FinalizedIndexSorted ==
    /\ ~IsNone(pii.tokens) => SortedIndex(pii)
    /\ ~IsNone(cache_pii) => SortedIndex(Unwrap(cache_pii))

\* The insertion order of the builder was not the sorted order, for the terms and
\* for the documents of a term, and the index was finalized, stored and loaded.
C1_Witness ==
    /\ ~IsNone(pii.tokens)
    /\ ~IsNone(cache_pii)
    /\ LET d == Unwrap(pii.dict)
           loaded == Unwrap(Unwrap(cache_pii).tokens)
       IN /\ Len(d) = 2 /\ d[1][1] > d[2][1]
          /\ \E i \in 1..2 : LET l == Unwrap(d[i][2].dict)
                             IN Len(l) = 2 /\ l[1][1] > l[2][1]
          /\ Len(Unwrap(pii.tokens)) = 2
          /\ Len(loaded) = 2
          /\ \E i \in 1..2 : Len(Unwrap(loaded[i][2].list)) = 2

\* What the cache contract fixes of an index: the sequence of terms, idf and df of
\* each, and per term the sequence of (doc_id, tf, linear_tf, positions).
IndexView(index) ==
    LET tokens == Unwrap(index.tokens)
        postings(token) ==
            LET l == Unwrap(token.list)
            IN [j \in 1..Len(l) |-> << l[j][1], l[j][2].tf, l[j][2].linear_tf, l[j][2].positions >>]
    IN [i \in 1..Len(tokens) |->
           << tokens[i][1], tokens[i][2].idf, tokens[i][2].linear_df, postings(tokens[i][2]) >>]

\* C2: a load of the cache that store wrote for the index gives an index with the
\* same terms, idf, df and postings (doc_id, tf, linear_tf, positions), in the same order.
C2_CacheRoundTrip ==
    [][ (LoadCache /\ ~IsNone(pii.tokens) /\ cache_file = Some(write_cache(pii)))
          => (~IsNone(cache_pii') /\ IndexView(Unwrap(cache_pii')) = IndexView(pii)) ]_vars

\* A stored index of two terms, one with two postings and an attribute occurrence
\* (tf above 1, sentinel position), has been loaded and equals the builder's index.
C2_Witness ==
    /\ ~IsNone(cache_pii)
    /\ ~IsNone(pii.tokens)
    /\ cache_file = Some(write_cache(pii))
    /\ IndexView(Unwrap(cache_pii)) = IndexView(pii)
    /\ LET loaded == Unwrap(Unwrap(cache_pii).tokens)
       IN /\ Len(loaded) = 2
          /\ \E i \in 1..2 :
                LET l == Unwrap(loaded[i][2].list)
                IN /\ Len(l) = 2
                   /\ \E j \in 1..2 : l[j][2].tf > SCALE /\ l[j][2].positions[1] = -1

\* ----------------------------------------------------------- claims C3, C10

\* The arguments and the IRData of every create() call whose champions step has
\* run: the calls that returned, and the one about to return.
Generated ==
    { [r |-> returned[i].args.r, ir |-> returned[i].ir] : i \in 1..Len(returned) }
    \cup (IF pc = "return" THEN { [r |-> Unwrap(args).r, ir |-> Unwrap(ir)] } ELSE { })

\* Every Token has a champions list of at most n entries, each a posting of the
\* Token, in strictly ascending order of document id.
ChampionsBounded(irdata, n) ==
    LET tokens == Unwrap(irdata.pii.tokens)
    IN \A i \in 1..Len(tokens) :
          LET token == tokens[i][2]
          IN /\ ~IsNone(token.champions_list)
             /\ LET c == Unwrap(token.champions_list)
                    l == Unwrap(token.list)
                IN /\ Len(c) <= n
                   /\ \A j \in 1..Len(c) : \E m \in 1..Len(l) : l[m] = c[j]
                   /\ StrictlyAscending(c)

\* C3 as stated: after generate(collection, r) with any integer r, every champions
\* list has at most r entries, all postings of its Token, ascending by document id.
C3_AnyIntegerR ==
    \A g \in Generated : ~IsNone(g.r) => ChampionsBounded(g.ir, Unwrap(g.r))

\* C3 amended: the same for every r >= 0. (A negative r is a slice from the end,
\* tf_sorted[:r], and no list has at most r < 0 entries.)
C3_ChampionsInvariant ==
    \A g \in Generated :
        (~IsNone(g.r) /\ Unwrap(g.r) >= 0) => ChampionsBounded(g.ir, Unwrap(g.r))

\* A create() with r = 1 returned a Token with several postings whose one champion
\* is not its first posting.
C3_Witness ==
    \E i \in 1..Len(returned) :
        /\ returned[i].args.r = Some(1)
        /\ LET tokens == Unwrap(returned[i].ir.pii.tokens)
           IN \E t \in 1..Len(tokens) :
                 /\ Len(Unwrap(tokens[t][2].list)) >= 2
                 /\ Len(Unwrap(tokens[t][2].champions_list)) = 1
                 /\ Unwrap(tokens[t][2].champions_list)[1] # Unwrap(tokens[t][2].list)[1]

\* What C10 compares of a Collection: the index as the cache contract fixes it, the
\* champions list of every Token and the document vector lengths.
CollectionView(irdata) ==
    LET tokens == Unwrap(irdata.pii.tokens)
        posting(e) == << e[1], e[2].tf, e[2].linear_tf, e[2].positions >>
        champions(token) ==
            IF IsNone(token.champions_list) THEN None
            ELSE LET c == Unwrap(token.champions_list)
                 IN Some([j \in 1..Len(c) |-> posting(c[j])])
    IN [index |-> IndexView(irdata.pii),
        champions |-> [i \in 1..Len(tokens) |-> champions(tokens[i][2])],
        doc_lengths |-> irdata.doc_lengths]

\* An index create_pii built has its working dict; one read_from_cache loaded has none.
BuiltFromSource(irdata) == ~IsNone(irdata.pii.dict)

\* C10: a create(source, cache=True) that found no cache built the index and wrote
\* a cache; the next create(source, cache=True) with the same source and r loaded
\* the index from the cache and returned the same index, champions lists and
\* document vector lengths.
C10_CacheHitSameCollection ==
    /\ \A i \in 1..Len(returned) :
          (returned[i].args.cache /\ BuiltFromSource(returned[i].ir)) => ~IsNone(cache_file)
    /\ \A i \in 1..(Len(returned) - 1) :
          LET first == returned[i]
              second == returned[i + 1]
          IN (/\ first.args.cache /\ BuiltFromSource(first.ir)
              /\ second.args.cache
              /\ second.source = first.source
              /\ second.args.r = first.args.r)
             => /\ ~BuiltFromSource(second.ir)
                /\ CollectionView(second.ir) = CollectionView(first.ir)

\* Two create(source, cache=True, r=1) calls returned, the first built from a
\* source of three or more documents, with a title weight, and champions lists
\* that leave postings out.
C10_Witness ==
    /\ Len(returned) = 2
    /\ returned[1].args = [cache |-> TRUE, r |-> Some(1)]
    /\ returned[2].args = [cache |-> TRUE, r |-> Some(1)]
    /\ BuiltFromSource(returned[1].ir)
    /\ ~BuiltFromSource(returned[2].ir)
    /\ Len(returned[1].source) >= 3
    /\ LET tokens == Unwrap(returned[2].ir.pii.tokens)
       IN \E t \in 1..Len(tokens) :
             /\ Len(Unwrap(tokens[t][2].list)) > Len(Unwrap(tokens[t][2].champions_list))
             /\ \E j \in 1..Len(Unwrap(tokens[t][2].list)) :
                   Unwrap(tokens[t][2].list)[j][2].tf > 2 * SCALE

\* ------------------------------------------------------- claims C4, C5, C9

\* The last call was a search; it returned.
Searched == ~IsNone(query) /\ Unwrap(query).op = "search"
SearchReturned == Searched /\ Unwrap(result).exc = "none"

\* The scored documents of the search that returned, each with its final score:
\* cosine / length, times the phrase multiplier (1 without an entry), plus the date score.
FinalScores ==
    LET q == Unwrap(query)
        res == Unwrap(result)
        scores == Unwrap(res.doc_scores)
    IN [i \in 1..Len(scores) |->
           LET d == scores[i][1]
               doc == DictGet(Collection.docs, d)
               normalized == FDiv(scores[i][2], DictGet(Collection.doc_lengths, d))
               phrased == IF IsNone(res.phrase_scores) THEN normalized
                          ELSE FMul(normalized, DictGetOr(Unwrap(res.phrase_scores), d, SCALE))
           IN << doc,
                 IF q.date_score
                 THEN phrased + date_score(doc.date, Collection.max_doc_date,
                                           Collection.min_doc_date)
                 ELSE phrased >>]

\* C4: a search that returns gives min(k, number of scored documents) scored
\* documents, each once with its final score, no later one with a higher score
\* than an earlier one, and no scored document left out has a strictly higher
\* score than a returned one.
C4_TopKDescending ==
    SearchReturned =>
        LET top == Unwrap(Unwrap(result).val)
            scored == FinalScores
        IN /\ Len(top) = Min(Unwrap(query).k, Len(scored))
           /\ \A i \in 1..(Len(top) - 1) : top[i][2] >= top[i + 1][2]
           /\ \E chosen \in SUBSET (1..Len(scored)) :
                 /\ Cardinality(chosen) = Len(top)
                 /\ { scored[j] : j \in chosen } = { top[i] : i \in 1..Len(top) }
                 /\ \A j \in (1..Len(scored)) \ chosen : \A i \in 1..Len(top) :
                       scored[j][2] <= top[i][2]

\* A search with k = 2 over three or more scored documents returned two of them,
\* the first with the strictly higher score and the later place in doc_scores, and
\* left out a document with a strictly lower score.
C4_Witness ==
    /\ SearchReturned
    /\ Unwrap(query).k = 2
    /\ LET top == Unwrap(Unwrap(result).val)
           scored == FinalScores
       IN /\ Len(scored) >= 3
          /\ Len(top) = 2
          /\ top[1][2] > top[2][2]
          /\ \E i, j \in 1..Len(scored) : i < j /\ scored[j] = top[1] /\ scored[i] = top[2]
          /\ \E j \in 1..Len(scored) : scored[j][2] < top[2][2]

\* The entry of a term in the index of the Collection, None without one.
TokenOf(irdata, term) ==
    LET tokens == Unwrap(irdata.pii.tokens)
        at == { i \in 1..Len(tokens) : tokens[i][1] = term }
    IN IF at = { } THEN None ELSE Some(tokens[CHOOSE i \in at : TRUE][2])

\* The postings visible for a term: its champions list if it has one, else its
\* positional list; none for a term the index does not have.
VisiblePostings(irdata, term) ==
    LET token == TokenOf(irdata, term)
    IN IF IsNone(token) THEN << >>
       ELSE IF IsNone(Unwrap(token).champions_list) THEN Unwrap(Unwrap(token).list)
       ELSE Unwrap(Unwrap(token).champions_list)

\* The documents visible for at least one of the terms.
VisibleDocuments(irdata, terms) ==
    UNION { { VisiblePostings(irdata, t)[j][1] : j \in 1..Len(VisiblePostings(irdata, t)) } :
            t \in terms }

TermsOf(tokens) == { tokens[i] : i \in 1..Len(tokens) }

\* C5 as stated: a search returns at most as many results as there are documents
\* with a nonzero raw cosine score.
C5_NonzeroCosineOnly ==
    SearchReturned =>
        LET scores == Unwrap(Unwrap(result).doc_scores)
        IN Len(Unwrap(Unwrap(result).val))
              <= Cardinality({ i \in 1..Len(scores) : scores[i][2] # 0 })

\* C5 amended: a search returns at most k results and at most as many as there are
\* documents visible for at least one query term of the index, those whose raw
\* cosine score is 0 (every matching term has idf 0) included.
C5_ResultsWithinVisible ==
    SearchReturned =>
        /\ Len(Unwrap(Unwrap(result).val)) <= Unwrap(query).k
        /\ Len(Unwrap(Unwrap(result).val))
              <= Cardinality(VisibleDocuments(Collection, TermsOf(Unwrap(query).tokens)))

\* A search returned a document whose raw cosine score is 0, in a Collection whose
\* champions lists leave postings out.
C5_Witness ==
    /\ SearchReturned
    /\ LET scores == Unwrap(Unwrap(result).doc_scores)
           top == Unwrap(Unwrap(result).val)
       IN /\ \E i \in 1..Len(top) : \E j \in 1..Len(scores) :
                scores[j][1] = top[i][1].id /\ scores[j][2] = 0
          /\ Len(top) > Cardinality({ i \in 1..Len(scores) : scores[i][2] # 0 })
    /\ \E t \in TermsOf(Unwrap(query).tokens) :
          /\ ~IsNone(TokenOf(Collection, t))
          /\ Len(VisiblePostings(Collection, t)) < Len(Unwrap(Unwrap(TokenOf(Collection, t)).list))

RECURSIVE SumOf(_, _)
SumOf(f, S) ==
    IF S = { } THEN 0
    ELSE LET x == CHOOSE y \in S : TRUE IN f[x] + SumOf(f, S \ { x })

\* tf of the term in the query's own index: 1 + log2 of its count in the query.
QueryWeight(tokens, term) ==
    calculate_tf(Cardinality({ i \in 1..Len(tokens) : tokens[i] = term }))

\* What the term adds to the score of the document: tf * idf * wtq of a visible
\* posting, nothing otherwise.
Contribution(irdata, tokens, term, doc_id) ==
    LET postings == VisiblePostings(irdata, term)
        at == { j \in 1..Len(postings) : postings[j][1] = doc_id }
    IN IF at = { } THEN 0
       ELSE FMul(FMul(postings[CHOOSE j \in at : TRUE][2].tf,
                      Unwrap(TokenOf(irdata, term)).idf),
                 QueryWeight(tokens, term))

\* C9: the mapping cosine_score returned has one key for each document visible
\* for at least one query term of the index, and no other; the value of a document
\* is the sum, over the query terms it is visible for, of tf * idf * (tf of the
\* term in the query).
C9_CosineScoreMapping ==
    (Searched /\ ~IsNone(Unwrap(result).doc_scores)) =>
        LET scores == Unwrap(Unwrap(result).doc_scores)
            tokens == Unwrap(query).tokens
        IN /\ \A i, j \in 1..Len(scores) : scores[i][1] = scores[j][1] => i = j
           /\ { scores[i][1] : i \in 1..Len(scores) }
                 = VisibleDocuments(Collection, TermsOf(tokens))
           /\ \A i \in 1..Len(scores) :
                 scores[i][2]
                    = SumOf([t \in TermsOf(tokens) |->
                                Contribution(Collection, tokens, t, scores[i][1])],
                            TermsOf(tokens))

\* cosine_score returned for a query of two terms of the index, in a Collection
\* whose champions lists leave postings out: a document has a nonzero contribution
\* of both, and a document is visible for one of the terms only.
C9_Witness ==
    /\ Searched
    /\ ~IsNone(Unwrap(result).doc_scores)
    /\ LET scores == Unwrap(Unwrap(result).doc_scores)
           tokens == Unwrap(query).tokens
       IN /\ Cardinality(TermsOf(tokens)) = 2
          /\ \A t \in TermsOf(tokens) :
                /\ ~IsNone(TokenOf(Collection, t))
                /\ ~IsNone(Unwrap(TokenOf(Collection, t)).champions_list)
          /\ \E t \in TermsOf(tokens) :
                Len(VisiblePostings(Collection, t))
                   < Len(Unwrap(Unwrap(TokenOf(Collection, t)).list))
          /\ \E i \in 1..Len(scores) : \A t \in TermsOf(tokens) :
                Contribution(Collection, tokens, t, scores[i][1]) > 0
          /\ \E i \in 1..Len(scores) : \E t \in TermsOf(tokens) :
                Contribution(Collection, tokens, t, scores[i][1]) = 0

\* ------------------------------------------------------- claims C6, C7, C8

\* C6 as stated: a lookup that misses is a KeyError its caller turns into
\* frequency 0 or no contribution, so no get_document_frequency, get_term_frequency
\* or search call raises, whatever the vocabulary and the champions lists are.
C6_MissNeverRaises ==
    ~IsNone(result) => Unwrap(result).exc = "none"

\* The tokenized content of the document in the source file.
ContentOf(doc_id) ==
    source[CHOOSE i \in 1..Len(source) : source[i].id = doc_id].content

\* The content has the tokens, in their order, at the positions p, p + 1, ...
OccursAt(content, tokens, p) ==
    \A i \in 1..Len(tokens) :
        p + i <= Len(content) /\ content[p + i] = tokens[i]

\* No Token of the Collection has a champions list.
FullPostings(irdata) ==
    \A i \in 1..Len(Unwrap(irdata.pii.tokens)) :
        IsNone(Unwrap(irdata.pii.tokens)[i][2].champions_list)

\* C7 as stated, for a Collection without champions lists: when the query is
\* L >= 2 distinct terms and a candidate document has them, in the order typed, at
\* consecutive positions, phrase_query gives the document the multiplier
\* 1 + PHRASE_QUERY_WEIGHT.
C7_PhraseInTypedOrder ==
    (/\ SearchReturned
     /\ Unwrap(query).phrase_query_score
     /\ FullPostings(Collection)
     /\ Len(Unwrap(query).tokens) >= 2
     /\ Cardinality(TermsOf(Unwrap(query).tokens)) = Len(Unwrap(query).tokens))
    => LET scores == Unwrap(Unwrap(result).doc_scores)
           phrase == Unwrap(Unwrap(result).phrase_scores)
       IN \A i \in 1..Len(scores) :
             LET content == ContentOf(scores[i][1])
             IN (\E p \in 0..Len(content) : OccursAt(content, Unwrap(query).tokens, p))
                => /\ DictHas(phrase, scores[i][1])
                   /\ DictGet(phrase, scores[i][1]) = SCALE + PHRASE_QUERY_WEIGHT * SCALE

\* C8 as stated: a phrase multiplier is >= 1, and a document has one only if two
\* terms that are consecutive in the query as typed are at adjacent positions of
\* its content.
C8_MultiplierNeedsAdjacentPair ==
    (SearchReturned /\ Unwrap(query).phrase_query_score)
    => LET phrase == Unwrap(Unwrap(result).phrase_scores)
           tokens == Unwrap(query).tokens
       IN \A i \in 1..Len(phrase) :
             /\ phrase[i][2] >= SCALE
             /\ LET content == ContentOf(phrase[i][1])
                IN \E n \in 1..(Len(tokens) - 1) : \E p \in 0..Len(content) :
                      OccursAt(content, << tokens[n], tokens[n + 1] >>, p)

\* ---------------------------------------------------------------- claim C11

\* The cache file is present and read_from_cache cannot load it.
Malformed(file_content) == read_from_cache_raises(file_content) # "none"

\* The Collection a create of the source without any cache builds.
BuiltWithoutCache(file_content, r) ==
    generate_champions_list(
        IRData_init(create_pii(load_documents(file_content)), load_documents(file_content)), r)

\* C11 as stated: with a malformed cache file present, create(source, cache=True)
\* does not fail, and what it returns is the Collection a build of the source
\* without a cache gives.
C11_MalformedCacheFallsBack ==
    Malformed(cache_file) =>
        /\ pc # "raised"
        /\ \A i \in 1..Len(returned) :
              CollectionView(returned[i].ir)
                 = CollectionView(BuiltWithoutCache(returned[i].source, returned[i].args.r))

\* ---------------------------------------------------------------- claim C12

\* C12 as stated: an add_occurrence call on an index that has been finalized
\* leaves its terms, the idf and linear_df of every Token, and the document id, tf,
\* linear_tf and positions of every posting as they were.
C12_FinalizedIndexReadOnly ==
    [][ ((\E term \in BuilderTerms, doc_id \in BuilderDocIds, kind \in OccurrenceKinds :
             AddOccurrence(term, doc_id, kind))
         /\ ~IsNone(pii.tokens))
        => IndexView(pii') = IndexView(pii) ]_vars

\* ---------------------------------------------------------------- claim C13

LookedUp == ~IsNone(query) /\ Unwrap(query).op = "get_term_frequency"

\* The linear_tf of the visible posting of the term for the document, 0 without one.
VisibleLinearTf(irdata, term, doc_id) ==
    LET postings == VisiblePostings(irdata, term)
        at == { j \in 1..Len(postings) : postings[j][1] = doc_id }
    IN IF at = { } THEN 0 ELSE postings[CHOOSE j \in at : TRUE][2].linear_tf

\* The Collection was made without champions lists or with an r >= 0.
NonNegativeR ==
    LET r == returned[Len(returned)].args.r IN IsNone(r) \/ Unwrap(r) >= 0

\* C14 as stated, for r absent or r >= 0: get_term_frequency of a term of the
\* index answers from the champions list when the Token has one, else from the
\* full postings: the linear_tf of the visible posting, and 0 (NotFound) for a
\* document without a
\* visible posting, whether or not it contains the term; and cosine_score for a
\* one-term query scores the documents of the visible postings, in their order.
C14_ChampionsAwareLookup ==
    /\ (LookedUp /\ NonNegativeR) =>
          LET term == Unwrap(query).tokens[1]
          IN ~IsNone(TokenOf(Collection, term))
             => /\ Unwrap(result).exc = "none"
                /\ Unwrap(result).val
                      = Some(VisibleLinearTf(Collection, term, Unwrap(query).doc_id))
    /\ (Searched /\ ~IsNone(Unwrap(result).doc_scores)
           /\ Cardinality(TermsOf(Unwrap(query).tokens)) = 1)
       => LET postings == VisiblePostings(Collection, Unwrap(query).tokens[1])
              scores == Unwrap(Unwrap(result).doc_scores)
          IN [i \in 1..Len(scores) |-> scores[i][1]]
                = [j \in 1..Len(postings) |-> postings[j][1]]

\* ---------------------------------------------------------------- claim C15

\* The posting of (term, doc_id) in the working dicts of the builder; a posting
\* no call has touched is the new DocumentTokenData.
PostingOf(index, term, doc_id) ==
    LET d == Unwrap(index.dict)
    IN IF ~DictHas(d, term) THEN NewDocumentTokenData
       ELSE DictGetOr(Unwrap(DictGet(d, term).dict), doc_id, NewDocumentTokenData)

\* The linear_df of the term, 0 for a term without a Token.
LinearDfOf(index, term) ==
    IF DictHas(Unwrap(index.dict), term) THEN DictGet(Unwrap(index.dict), term).linear_df
    ELSE 0

\* The documents with a posting for the term.
DocumentsOf(index, term) ==
    IF ~DictHas(Unwrap(index.dict), term) THEN { }
    ELSE LET l == Unwrap(DictGet(Unwrap(index.dict), term).dict)
         IN { l[j][1] : j \in 1..Len(l) }

\* C15: no call, no count (a new posting has linear_tf 0, no position, weight 1);
\* each add_occurrence(term, doc_id, position, weight) call, positional or
\* attribute, adds one to linear_tf of (term, doc_id), appends one position and
\* multiplies the weight factor by weight, and leaves every other posting alone;
\* and always linear_tf = len(positions) and linear_df = the number of documents
\* with a posting for the term.
C15_OccurrenceCounts ==
    /\ [](\A term \in BuilderTerms :
             /\ LinearDfOf(pii, term) = Cardinality(DocumentsOf(pii, term))
             /\ \A doc_id \in BuilderDocIds :
                   PostingOf(pii, term, doc_id).linear_tf
                      = Len(PostingOf(pii, term, doc_id).positions))
    /\ [][ \A term \in BuilderTerms, doc_id \in BuilderDocIds, kind \in OccurrenceKinds :
              AddOccurrence(term, doc_id, kind)
              => /\ PostingOf(pii', term, doc_id).linear_tf
                       = PostingOf(pii, term, doc_id).linear_tf + 1
                 /\ PostingOf(pii', term, doc_id).positions
                       = Append(PostingOf(pii, term, doc_id).positions, kind.position)
                 /\ PostingOf(pii', term, doc_id).weight
                       = FMul(PostingOf(pii, term, doc_id).weight, kind.weight)
                 /\ \A t \in BuilderTerms, d \in BuilderDocIds :
                       << t, d >> # << term, doc_id >>
                       => /\ PostingOf(pii', t, d).linear_tf = PostingOf(pii, t, d).linear_tf
                          /\ PostingOf(pii', t, d).positions = PostingOf(pii, t, d).positions
                          /\ PostingOf(pii', t, d).weight = PostingOf(pii, t, d).weight ]_vars

\* A term has postings for two documents, one of them made by an attribute
\* occurrence and a positional one (linear_tf 2, weight factor above 1).
C15_Witness ==
    \E term \in BuilderTerms :
        /\ LinearDfOf(pii, term) = 2
        /\ \E doc_id \in BuilderDocIds :
              /\ PostingOf(pii, term, doc_id).linear_tf = 2
              /\ PostingOf(pii, term, doc_id).weight = TITLE_TOKEN_WEIGHT
              /\ \E n \in 1..2 : PostingOf(pii, term, doc_id).positions[n] = -1

\* ---------------------------------------------------------------- claim C16

\* The normalized score of a posting: idf * tf / document_vector_length[doc_id].
NormalizedScore(irdata, token, posting) ==
    FDiv(FMul(token.idf, posting[2].tf), DictGet(irdata.doc_lengths, posting[1]))

\* The champions list of every Token is min(n, number of postings) of its
\* postings, and no posting left out scores strictly higher than one kept.
ChampionsAreTop(irdata, n) ==
    LET tokens == Unwrap(irdata.pii.tokens)
    IN \A i \in 1..Len(tokens) :
          LET token == tokens[i][2]
              c == Unwrap(token.champions_list)
              l == Unwrap(token.list)
              kept == { j \in 1..Len(l) : \E m \in 1..Len(c) : c[m] = l[j] }
          IN /\ Len(c) = Min(n, Len(l))
             /\ Cardinality(kept) = Len(c)
             /\ \A j \in kept : \A o \in (1..Len(l)) \ kept :
                   NormalizedScore(irdata, token, l[o]) <= NormalizedScore(irdata, token, l[j])

\* C16: after generate with r >= 0, the champions list of every Token holds the
\* min(r, number of postings) postings with the highest normalized score.
C16_ChampionsTopByScore ==
    \A g \in Generated :
        (~IsNone(g.r) /\ Unwrap(g.r) >= 0) => ChampionsAreTop(g.ir, Unwrap(g.r))

\* A create() with r = 2 returned a Token with three or more postings: a posting
\* left out scores strictly lower than both champions, and one champion has a
\* higher tf and document id than a posting left out.
C16_Witness ==
    \E i \in 1..Len(returned) :
        /\ returned[i].args.r = Some(2)
        /\ LET tokens == Unwrap(returned[i].ir.pii.tokens)
           IN \E t \in 1..Len(tokens) :
                 LET token == tokens[t][2]
                     c == Unwrap(token.champions_list)
                     l == Unwrap(token.list)
                     out == { j \in 1..Len(l) : \A m \in 1..Len(c) : c[m] # l[j] }
                 IN /\ Len(l) >= 3
                    /\ Len(c) = 2
                    /\ \E o \in out : \A m \in 1..2 :
                          NormalizedScore(returned[i].ir, token, l[o])
                             < NormalizedScore(returned[i].ir, token, c[m])
                    /\ \E o \in out : \E m \in 1..2 : l[o][1] < c[m][1]

\* ---------------------------------------------------------------- claim C17

\* The document has the term at a real (content) position.
HasRealPosition(doc_id, term) ==
    \E p \in 1..Len(ContentOf(doc_id)) : ContentOf(doc_id)[p] = term

\* The first place of the query whose term has a real position in the document,
\* 0 when no term has one.
FirstRealTerm(tokens, doc_id) ==
    LET real == { n \in 1..Len(tokens) : HasRealPosition(doc_id, tokens[n]) }
    IN IF real = { } THEN 0 ELSE CHOOSE n \in real : \A m \in real : n <= m

\* C17 as stated, for a query of distinct terms typed in lexicographic order and a
\* Collection without champions lists: when the first query term with a real
\* position in a candidate document is followed in the query by a term that the
\* document has at the next position, the document gets a phrase multiplier, also
\* when earlier query terms are in the document with sentinel positions only.
C17_StartsAtFirstRealTerm ==
    (/\ SearchReturned
     /\ Unwrap(query).phrase_query_score
     /\ FullPostings(Collection)
     /\ \A n \in 1..(Len(Unwrap(query).tokens) - 1) :
           Unwrap(query).tokens[n] < Unwrap(query).tokens[n + 1])
    => LET tokens == Unwrap(query).tokens
           scores == Unwrap(Unwrap(result).doc_scores)
       IN \A i \in 1..Len(scores) :
             LET d == scores[i][1]
                 n == FirstRealTerm(tokens, d)
             IN (/\ n > 0
                 /\ n < Len(tokens)
                 /\ \E p \in 0..Len(ContentOf(d)) :
                       OccursAt(ContentOf(d), << tokens[n], tokens[n + 1] >>, p))
                => DictHas(Unwrap(Unwrap(result).phrase_scores), d)

\* ---------------------------------------------------------------- claim C18

\* No Token of the IRData has a champions list; every Token has one.
NoChampions(irdata) ==
    \A i \in 1..Len(Unwrap(irdata.pii.tokens)) :
        IsNone(Unwrap(irdata.pii.tokens)[i][2].champions_list)
AllChampions(irdata) ==
    \A i \in 1..Len(Unwrap(irdata.pii.tokens)) :
        ~IsNone(Unwrap(irdata.pii.tokens)[i][2].champions_list)

\* The document vector length of every document with a posting is known.
LengthsKnown(irdata) ==
    \A i \in 1..Len(Unwrap(irdata.pii.tokens)) :
        \A j \in 1..Len(Unwrap(Unwrap(irdata.pii.tokens)[i][2].list)) :
            DictHas(irdata.doc_lengths, Unwrap(Unwrap(irdata.pii.tokens)[i][2].list)[j][1])

\* The cache file holds terms with idf, df and postings, and nothing else.
CacheWithoutChampions ==
    IsNone(cache_file)
    \/ \A i \in 1..Len(Unwrap(cache_file)) :
          /\ DOMAIN Unwrap(cache_file)[i] = { "term", "idf", "df", "list" }
          /\ \A j \in 1..Len(Unwrap(cache_file)[i].list) :
                DOMAIN Unwrap(cache_file)[i].list[j] = { "doc_id", "tf", "lf", "list" }

\* C18: in every create call with r given, on the cache-hit, cache-miss and
\* no-cache paths: when champions generation starts the index is finalized or
\* loaded, the IRData exists with the vector length of every posting's document,
\* and no Token has a champions list yet; generation is one step, the only one into
\* the return, after which every Token has a champions list; the call returns the
\* IRData generation left; the cache file is written only before the IRData
\* exists and never holds a champions list.
C18_ChampionsOnceBeforeReturn ==
    /\ [](/\ pc = "champions"
              => /\ ~IsNone(ir)
                 /\ ~IsNone(Unwrap(ir).pii.tokens)
                 /\ LengthsKnown(Unwrap(ir))
                 /\ NoChampions(Unwrap(ir))
          /\ (pc = "return" /\ ~IsNone(Unwrap(args).r)) => AllChampions(Unwrap(ir))
          /\ \A i \in 1..Len(returned) :
                ~IsNone(returned[i].args.r) => AllChampions(returned[i].ir)
          /\ CacheWithoutChampions)
    /\ [][ /\ (pc' = "return" /\ pc # "return") => pc = "champions"
           /\ (pc = "champions" /\ pc' # "champions")
                 => /\ pc' = "return"
                    /\ ir' = Some(generate_champions_list(Unwrap(ir), Unwrap(args).r))
           /\ returned' # returned
                 => /\ pc = "return"
                    /\ Len(returned') = Len(returned) + 1
                    /\ returned'[Len(returned')].ir = Unwrap(ir)
           /\ cache_file' # cache_file => (pc = "write_cache" /\ IsNone(ir)) ]_vars

\* Two paths with r = 2 are done: a create with cache=True built the index and
\* wrote the cache, and a second one loaded it; both returned champions lists that
\* leave postings out.
C18_Witness ==
    /\ Len(returned) = 2
    /\ returned[1].args = [cache |-> TRUE, r |-> Some(2)]
    /\ returned[2].args = [cache |-> TRUE, r |-> Some(2)]
    /\ BuiltFromSource(returned[1].ir)
    /\ ~BuiltFromSource(returned[2].ir)
    /\ ~IsNone(cache_file)
    /\ Len(Unwrap(cache_file)) = 2
    /\ \A i \in 1..2 :
          /\ AllChampions(returned[i].ir)
          /\ \E t \in 1..Len(Unwrap(returned[i].ir.pii.tokens)) :
                Len(Unwrap(Unwrap(returned[i].ir.pii.tokens)[t][2].champions_list))
                   < Len(Unwrap(Unwrap(returned[i].ir.pii.tokens)[t][2].list))

\* ---------------------------------------------------------------- claim C19

\* The document ids cosine_score gave a score in the last search.
ScoredIds ==
    IF IsNone(Unwrap(result).doc_scores) THEN { }
    ELSE { Unwrap(Unwrap(result).doc_scores)[i][1] :
               i \in 1..Len(Unwrap(Unwrap(result).doc_scores)) }

\* C19: after every search on a returned IRData, whether its index was built from
\* the source or loaded from a cache file an earlier run left, every document id
\* with a cosine score has an entry in the IRData's docs and in its doc_lengths,
\* and the search did not raise KeyError.
C19_ScoredDocumentsKnown ==
    Searched
    => /\ Unwrap(result).exc # "KeyError"
       /\ \A d \in ScoredIds :
             DictHas(Collection.docs, d) /\ DictHas(Collection.doc_lengths, d)

====
